---- MODULE Spec2Model ----
(***************************************************************************)
(* Commit-time semantic-version guard.                                     *)
(*                                                                         *)
(*   scripts/semantic_bump.py        pre-commit (interactive) and          *)
(*                                   commit-msg (message-driven) bumper    *)
(*   scripts/semantic_versioning.py  commit-msg validator (no bumping)     *)
(*                                                                         *)
(* Text is modelled at the level of tokens: a commit message is a sequence *)
(* of lines, a line a sequence of tokens (words, punctuation, quoted       *)
(* strings); white space between tokens is what the patterns' \s* and \s+  *)
(* skip.  A path is the sequence of its segments.  A metadata file is a    *)
(* sequence of lines, each a version line (one VERSION_LINE matches),      *)
(* other text, or blank.  A version literal "X.Y.Z" is its three decimal   *)
(* digit strings.                                                          *)
(***************************************************************************)
EXTENDS Integers, Sequences, FiniteSets, TLC

VARIABLES
    staged,   \* the index: the set of staged paths
    files,    \* the metadata files: init path -> [exists, lines]
    msg,      \* the commit-message file: [lines, nl]
    last,     \* what the last hook invocation was given and how it ended
    prev,     \* staged, files, msg as they were before the last invocation
    runs,     \* number of hook invocations so far
    probe     \* a direct call of bump_tuple: its arguments and its result

vars == <<staged, files, msg, last, prev, runs, probe>>

(***************************************************************************)
(* Bounds of the model.                                                    *)
(***************************************************************************)
\* hook invocations in one behaviour
MaxRuns == 2
\* largest version component handed to a direct call of bump_tuple
MaxComp == 3

(***************************************************************************)
(* Tokens and str.lower().                                                 *)
(***************************************************************************)
W(s) == [q |-> FALSE, s |-> s]
Q(s) == [q |-> TRUE, s |-> s]

\* str.lower() on the strings the model uses
Lower(s) ==
    CASE s = "GLOBAL" -> "global"
      [] s = "Global" -> "global"
      [] s = "Minor"  -> "minor"
      [] s = "FIX"    -> "fix"
      [] s = "NA"     -> "na"
      [] s = "N"      -> "n"
      [] s = "B.py"   -> "b.py"
      [] OTHER        -> s

(***************************************************************************)
(* semantic_bump.py: configuration.                                        *)
(***************************************************************************)
CATALOGS ==
    << [dir   |-> <<"catalogs", "catalog_alpha">>,
        initp |-> <<"catalogs", "catalog_alpha", "__init__.py">>],
       [dir   |-> <<"catalogs", "catalog_beta">>,
        initp |-> <<"catalogs", "catalog_beta", "__init__.py">>],
       [dir   |-> <<"catalogs", "catalog_gamma">>,
        initp |-> <<"catalogs", "catalog_gamma", "__init__.py">>] >>

InitPaths == { CATALOGS[i].initp : i \in DOMAIN CATALOGS }

LevelTokens == {"major", "minor", "patch", "feat", "fix"}

LEVEL_MAP ==
    [t \in LevelTokens |->
        CASE t = "major" -> "major"
          [] t = "minor" -> "minor"
          [] t = "patch" -> "patch"
          [] t = "feat"  -> "minor"
          [] t = "fix"   -> "patch"]

\* dict.get(key, default)
LEVEL_MAP_get(token, default) ==
    IF token \in DOMAIN LEVEL_MAP THEN LEVEL_MAP[token] ELSE default

(***************************************************************************)
(* Version tuples and their text.                                          *)
(***************************************************************************)
RECURSIVE Digits(_)
\* str(n) for n >= 0: the decimal digits, most significant first
Digits(n) == IF n < 10 THEN <<n>> ELSE Append(Digits(n \div 10), n % 10)

RECURSIVE ParseInt(_)
\* int(s) for a string of decimal digits
ParseInt(ds) ==
    IF Len(ds) = 0 THEN 0
    ELSE 10 * ParseInt(SubSeq(ds, 1, Len(ds) - 1)) + ds[Len(ds)]

tuple_to_str(t) == <<Digits(t[1]), Digits(t[2]), Digits(t[3])>>

\* faulty variant: a major bump that keeps the patch number
bump_tuple_keeps_patch(v, level) ==
    IF level = "major" THEN <<v[1] + 1, 0, v[3]>>
    ELSE IF level = "minor" THEN <<v[1], v[2] + 1, 0>>
    ELSE <<v[1], v[2], v[3] + 1>>

\* faulty variant: a level that is none of major, minor, patch bumps nothing
bump_tuple_strict(v, level) ==
    IF level = "major" THEN <<v[1] + 1, 0, 0>>
    ELSE IF level = "minor" THEN <<v[1], v[2] + 1, 0>>
    ELSE IF level = "patch" THEN <<v[1], v[2], v[3] + 1>>
    ELSE v

bump_tuple(v, level) ==
    IF level = "major" THEN <<v[1] + 1, 0, 0>>
    ELSE IF level = "minor" THEN <<v[1], v[2] + 1, 0>>
    ELSE <<v[1], v[2], v[3] + 1>>

(***************************************************************************)
(* The metadata file.                                                      *)
(***************************************************************************)
VersionLine(str) == [k |-> "version", v |-> str]
TextLine  == [k |-> "text",  v |-> <<>>]
BlankLine == [k |-> "blank", v |-> <<>>]

\* VERSION_LINE matches this line
IsVersionLine(l) == l.k = "version"

\* the default "0.1.0" as written into the file
DefaultStr == << <<0>>, <<1>>, <<0>> >>

read_text(fs, path) == IF fs[path].exists THEN fs[path].lines ELSE <<>>

write_text(fs, path, content) ==
    [fs EXCEPT ![path] = [exists |-> TRUE, lines |-> content]]

RECURSIVE RStrip(_)
\* str.rstrip(): trailing blank lines (and the final newline) go
RStrip(ls) ==
    IF Len(ls) > 0 /\ ls[Len(ls)].k = "blank"
    THEN RStrip(SubSeq(ls, 1, Len(ls) - 1))
    ELSE ls

\* content.rstrip() + '\n__version__ = "<str>"\n'
AppendVersion(ls, str) ==
    LET body == RStrip(ls) IN
    (IF Len(body) = 0 THEN <<BlankLine>> ELSE body) \o <<VersionLine(str)>>

HasVersionLine(ls) == \E i \in DOMAIN ls : IsVersionLine(ls[i])

\* VERSION_LINE.search: the first matching line
FirstVersionLine(ls) ==
    ls[CHOOSE i \in DOMAIN ls :
          /\ IsVersionLine(ls[i])
          /\ \A j \in 1..(i - 1) : ~IsVersionLine(ls[j])]

\* returns the version tuple, the file content, and the files as left on disk
get_version_from_init(fs, initp) ==
    LET txt == read_text(fs, initp) IN
    IF Len(txt) = 0 THEN
        LET new == <<VersionLine(DefaultStr)>> IN
        [v |-> <<0, 1, 0>>, content |-> new, files |-> write_text(fs, initp, new)]
    ELSE IF ~HasVersionLine(txt) THEN
        LET new == AppendVersion(txt, DefaultStr) IN
        [v |-> <<0, 1, 0>>, content |-> new, files |-> write_text(fs, initp, new)]
    ELSE
        LET g == FirstVersionLine(txt).v IN
        [v |-> <<ParseInt(g[1]), ParseInt(g[2]), ParseInt(g[3])>>,
         content |-> txt, files |-> fs]

\* VERSION_LINE.sub: every matching line is replaced
SubVersion(ls, str) ==
    [i \in DOMAIN ls |-> IF IsVersionLine(ls[i]) THEN VersionLine(str) ELSE ls[i]]

\* returns the files and the index after the write and the `git add`
set_version_in_init(fs, idx, initp, content, version_str) ==
    LET new == IF HasVersionLine(content)
               THEN SubVersion(content, version_str)
               ELSE AppendVersion(content, version_str) IN
    [files |-> write_text(fs, initp, new), staged |-> idx \cup {initp}]

(***************************************************************************)
(* semantic_bump.py: which catalogs have staged Python changes.            *)
(***************************************************************************)
Last(s) == s[Len(s)]

\* f.startswith(cat_dir + "/")
StartsWithDir(f, dir) ==
    Len(f) > Len(dir) /\ SubSeq(f, 1, Len(dir)) = dir

\* PY.match(f): the path ends in ".py"
PyNames == {"a.py", "b.py", "B.py", "x.py", "top.py", "__init__.py"}
PY_match(f) == Len(f) > 0 /\ Last(f) \in PyNames

\* the touched catalogs, in the order of CATALOGS
catalogs_with_python_changes(paths) ==
    SelectSeq(CATALOGS,
              LAMBDA c : \E f \in paths : StartsWithDir(f, c.dir) /\ PY_match(f))

\* cat_dir.split("/")[-1]
ShortName(c) == Last(c.dir)

Range(s) == { s[i] : i \in DOMAIN s }

(***************************************************************************)
(* semantic_bump.py: the shorthand grammar.                                *)
(***************************************************************************)
MarkLine(l) ==
    [i \in DOMAIN l |-> [tok |-> l[i], first |-> i = 1, last |-> i = Len(l)]]

RECURSIVE FlatLines(_)
\* the message as one token stream; each token knows whether it starts or
\* ends its line (the patterns' ^ and $ under re.M)
FlatLines(ls) ==
    IF Len(ls) = 0 THEN <<>> ELSE MarkLine(Head(ls)) \o FlatLines(Tail(ls))

IsWord(t, s) == ~t.q /\ t.s = s

\* ^\s*Global\s*:\s*(major|minor|patch|feat|fix)\s*$ matches from token i
GlobalAt(ft, i) ==
    /\ i + 2 <= Len(ft)
    /\ ft[i].first /\ ~ft[i].tok.q /\ Lower(ft[i].tok.s) = "global"
    /\ IsWord(ft[i + 1].tok, ":")
    /\ ~ft[i + 2].tok.q /\ Lower(ft[i + 2].tok.s) \in LevelTokens
    /\ ft[i + 2].last

parse_global_level(m) ==
    LET ft == FlatLines(m.lines)
        hits == { i \in DOMAIN ft : GlobalAt(ft, i) } IN
    IF hits = {} THEN "None"
    ELSE LET i == CHOOSE h \in hits : \A g \in hits : h <= g IN
         LEVEL_MAP[Lower(ft[i + 2].tok.s)]

\* (major|minor|patch|feat|fix) matched at the start of a word, any case:
\* the pattern puts nothing after the level, so a longer word matches too
LevelPrefix(s) ==
    IF Lower(s) \in LevelTokens THEN Lower(s)
    ELSE IF s = "feature" THEN "feat"
    ELSE "None"

\* "([^"]+)"\s*:\s*(major|minor|patch|feat|fix) matches from token i
PerCatalogAt(ft, i) ==
    /\ i + 2 <= Len(ft)
    /\ ft[i].tok.q /\ ft[i].tok.s # ""
    /\ IsWord(ft[i + 1].tok, ":")
    /\ ~ft[i + 2].tok.q /\ LevelPrefix(ft[i + 2].tok.s) # "None"

\* the dict built by the loop over re.findall: a later entry overwrites
parse_per_catalog_levels(m) ==
    LET ft == FlatLines(m.lines)
        hits == { i \in DOMAIN ft : PerCatalogAt(ft, i) }
        cats == { ft[i].tok.s : i \in hits } IN
    [c \in cats |->
        LET i == CHOOSE h \in hits :
                    /\ ft[h].tok.s = c
                    /\ \A g \in hits : ft[g].tok.s = c => g <= h IN
        LEVEL_MAP[LevelPrefix(ft[i + 2].tok.s)]]

(***************************************************************************)
(* semantic_bump.py: the commit-msg stage.                                 *)
(***************************************************************************)
NoLevels == [n \in {} |-> "None"]

\* faulty variant: for a single catalog the Global entry is looked up first
resolve_levels_global_first(touched_names, global_level, per_levels) ==
    IF Cardinality(touched_names) = 1 THEN
        LET only == CHOOSE n \in touched_names : TRUE IN
        IF global_level # "None" THEN
            [ok |-> TRUE, levels |-> [n \in {only} |-> global_level]]
        ELSE IF only \in DOMAIN per_levels THEN
            [ok |-> TRUE, levels |-> [n \in {only} |-> per_levels[only]]]
        ELSE
            [ok |-> FALSE, levels |-> NoLevels]
    ELSE
        LET missing    == touched_names \ DOMAIN per_levels
            extraneous == DOMAIN per_levels \ touched_names IN
        IF missing # {} THEN [ok |-> FALSE, levels |-> NoLevels]
        ELSE IF extraneous # {} THEN [ok |-> FALSE, levels |-> NoLevels]
        ELSE [ok |-> TRUE, levels |-> [n \in touched_names |-> per_levels[n]]]

\* faulty variant: with several catalogs touched, Global stands in for a
\* catalog that has no entry of its own
resolve_levels_global_fallback(touched_names, global_level, per_levels) ==
    IF \A n \in touched_names : n \in DOMAIN per_levels \/ global_level # "None" THEN
        [ok |-> TRUE,
         levels |-> [n \in touched_names |->
                        IF n \in DOMAIN per_levels THEN per_levels[n] ELSE global_level]]
    ELSE [ok |-> FALSE, levels |-> NoLevels]

\* levels_for, or the rejection of the message (the sys.exit(1) branches)
resolve_levels(touched_names, global_level, per_levels) ==
    IF Cardinality(touched_names) = 1 THEN
        LET only == CHOOSE n \in touched_names : TRUE IN
        IF only \in DOMAIN per_levels THEN
            [ok |-> TRUE, levels |-> [n \in {only} |-> per_levels[only]]]
        ELSE IF global_level # "None" THEN
            [ok |-> TRUE, levels |-> [n \in {only} |-> global_level]]
        ELSE
            [ok |-> FALSE, levels |-> NoLevels]
    ELSE
        LET missing    == touched_names \ DOMAIN per_levels
            extraneous == DOMAIN per_levels \ touched_names IN
        IF missing # {} THEN [ok |-> FALSE, levels |-> NoLevels]
        ELSE IF extraneous # {} THEN [ok |-> FALSE, levels |-> NoLevels]
        ELSE [ok |-> TRUE, levels |-> [n \in touched_names |-> per_levels[n]]]

RECURSIVE apply_bumps(_, _, _, _)
\* the "Apply bumps" loop: files and index after it
apply_bumps(touched, levels_for, fs, idx) ==
    IF Len(touched) = 0 THEN [files |-> fs, staged |-> idx]
    ELSE
        LET c    == Head(touched)
            g    == get_version_from_init(fs, c.initp)
            newt == bump_tuple(g.v, levels_for[ShortName(c)])
            w    == set_version_in_init(g.files, idx, c.initp, g.content,
                                        tuple_to_str(newt)) IN
        apply_bumps(Tail(touched), levels_for, w.files, w.staged)

\* sorted() on catalog short names
SortedNames == <<"catalog_alpha", "catalog_beta", "catalog_gamma">>
Sorted(S) == SelectSeq(SortedNames, LAMBDA n : n \in S)

RECURSIVE JoinComma(_)
\* ",".join(names)
JoinComma(names) ==
    IF Len(names) = 0 THEN <<>>
    ELSE IF Len(names) = 1 THEN <<W(names[1])>>
    ELSE <<W(names[1]), W(",")>> \o JoinComma(Tail(names))

\* sub in line: the tokens of sub, side by side, somewhere in the line
InLine(sub, line) ==
    \E i \in 1..(Len(line) - Len(sub) + 1) :
        SubSeq(line, i, i + Len(sub) - 1) = sub

\* sub in msg, for a sub that holds no line break
InMsg(sub, m) == \E i \in DOMAIN m.lines : InLine(sub, m.lines[i])

PrecommitRun == <<W("Precommit-Run"), W(":"), W("true")>>
SemverBump(bumped_names) ==
    <<W("Semver-Bump"), W(":")>> \o JoinComma(Sorted(Range(bumped_names)))
SemverLevel(name, level) == <<W("Semver-Level-" \o name), W(":"), W(level)>>

\* if not msg.endswith("\n"): msg += "\n"
EndWithNewline(m) ==
    IF m.nl THEN m
    ELSE [lines |-> IF Len(m.lines) = 0 THEN << <<>> >> ELSE m.lines, nl |-> TRUE]

AddLine(m, line) == [m EXCEPT !.lines = Append(@, line)]

RECURSIVE AddLevelLines(_, _, _)
AddLevelLines(m, names, levels_for) ==
    IF Len(names) = 0 THEN m
    ELSE AddLevelLines(AddLine(m, SemverLevel(Head(names), levels_for[Head(names)])),
                       Tail(names), levels_for)

\* the "Append trailers" block
append_trailers(m, bumped_names, touched_names, levels_for) ==
    LET m1 == EndWithNewline(m)
        m2 == IF ~InMsg(PrecommitRun, m1) THEN AddLine(m1, PrecommitRun) ELSE m1
        m3 == AddLine(m2, SemverBump(bumped_names)) IN
    AddLevelLines(m3, Sorted(touched_names), levels_for)

NameSeq(touched) == [i \in DOMAIN touched |-> ShortName(touched[i])]

\* faulty variant: the versions are read (and defaulted on disk) before the
\* message is judged
reject_after_read(idx, fs, m) ==
    LET touched == catalogs_with_python_changes(idx) IN
    [exit |-> 1, verdict |-> "rejected", staged |-> idx,
     files |-> get_version_from_init(fs, touched[1].initp).files, msg |-> m]

\* print the guidance; sys.exit(1)
reject(idx, fs, m) ==
    [exit |-> 1, verdict |-> "rejected", staged |-> idx, files |-> fs, msg |-> m]

\* an exception nobody catches: traceback, exit status 1
crash(idx, fs, m) ==
    [exit |-> 1, verdict |-> "crashed", staged |-> idx, files |-> fs, msg |-> m]

\* sys.exit(0) with nothing done
nothing(idx, fs, m) ==
    [exit |-> 0, verdict |-> "noop", staged |-> idx, files |-> fs, msg |-> m]

do_commit_msg(idx, fs, m, gitOk) ==
    IF ~gitOk THEN crash(idx, fs, m)
    ELSE
    LET touched == catalogs_with_python_changes(idx) IN
    IF Len(touched) = 0 THEN nothing(idx, fs, m)
    ELSE
    LET touched_names == Range(NameSeq(touched))
        r == resolve_levels(touched_names, parse_global_level(m),
                            parse_per_catalog_levels(m)) IN
    IF ~r.ok THEN reject(idx, fs, m)
    ELSE
    LET b == apply_bumps(touched, r.levels, fs, idx) IN
    [exit |-> 0, verdict |-> "accepted", staged |-> b.staged, files |-> b.files,
     msg |-> append_trailers(m, NameSeq(touched), touched_names, r.levels)]

(***************************************************************************)
(* semantic_bump.py: the pre-commit stage.                                 *)
(***************************************************************************)
\* input() answers `ans`; ans.strip().lower() is kept if it is a choice
prompt(isatty, ans, choices, default) ==
    IF ~isatty THEN default
    ELSE IF Lower(ans) \in choices THEN Lower(ans) ELSE default

BumpChoices == {"major", "minor", "feat", "patch", "fix"}

RECURSIVE pre_commit_loop(_, _, _, _, _, _, _)
\* the loop over the touched catalogs; answers[k] is the k-th line typed
pre_commit_loop(touched, same, chosen, answers, k, fs, idx) ==
    IF Len(touched) = 0 THEN [files |-> fs, staged |-> idx, prompts |-> k - 1]
    ELSE
        LET c  == Head(touched)
            g  == get_version_from_init(fs, c.initp)
            ask == (same = "y" /\ chosen = "None") \/ same # "y"
            level_token == IF ask THEN prompt(TRUE, answers[k], BumpChoices, "patch")
                           ELSE chosen
            level == LEVEL_MAP_get(level_token, "patch")
            newt  == bump_tuple(g.v, level)
            w     == set_version_in_init(g.files, idx, c.initp, g.content,
                                         tuple_to_str(newt)) IN
        pre_commit_loop(Tail(touched), same,
                        IF same = "y" THEN level_token ELSE chosen,
                        answers, IF ask THEN k + 1 ELSE k, w.files, w.staged)

do_pre_commit(idx, fs, m, gitOk, isatty, answers) ==
    IF ~gitOk THEN crash(idx, fs, m) @@ [prompts |-> 0]
    ELSE
    LET touched == catalogs_with_python_changes(idx) IN
    IF Len(touched) = 0 THEN nothing(idx, fs, m) @@ [prompts |-> 0]
    ELSE IF ~isatty THEN nothing(idx, fs, m) @@ [prompts |-> 0]
    ELSE
    LET same == prompt(isatty, answers[1], {"y", "n"}, "y")
        b    == pre_commit_loop(touched, same, "None", answers, 2, fs, idx) IN
    [exit |-> 0, verdict |-> "bumped", staged |-> b.staged, files |-> b.files,
     msg |-> m, prompts |-> b.prompts]

(***************************************************************************)
(* semantic_versioning.py: the validator.                                  *)
(***************************************************************************)
VALID_LEVEL_TOKENS == {"major", "minor", "patch", "feat", "fix", "na"}

\* the CalledProcessError is caught: no staged paths
get_staged_paths(idx, gitOk) == IF gitOk THEN idx ELSE {}

\* pathlib's suffix of a file name
Suffix(name) ==
    IF name \in PyNames THEN ".py" ELSE IF name = "notes.md" THEN ".md" ELSE ""

is_catalog_python(path) ==
    Len(path) >= 3 /\ path[1] = "catalogs" /\ Suffix(Last(path)) = ".py"

catalog_name_for(path) == path[2]

\* catalog -> its staged Python paths
group_changed_python_by_catalog(paths) ==
    LET py == { f \in paths : is_catalog_python(f) } IN
    [c \in { catalog_name_for(f) : f \in py } |->
        { f \in py : catalog_name_for(f) = c }]

RECURSIVE Concat(_)
\* " ".join of the lines: one token stream
Concat(ls) == IF Len(ls) = 0 THEN <<>> ELSE Head(ls) \o Concat(Tail(ls))

RECURSIVE SplitOn(_, _)
\* str.split(sep): the pieces between the sep tokens, empty ones included
SplitOn(toks, sep) ==
    LET at == { i \in DOMAIN toks : IsWord(toks[i], sep) } IN
    IF at = {} THEN <<toks>>
    ELSE LET i == CHOOSE a \in at : \A b \in at : a <= b IN
         <<SubSeq(toks, 1, i - 1)>> \o SplitOn(SubSeq(toks, i + 1, Len(toks)), sep)

NonEmpty(pieces) == SelectSeq(pieces, LAMBDA x : Len(x) > 0)

\* [A-Za-z0-9._\-]+ matches the whole token
IsCatalogWord(t) == ~t.q /\ t.s \notin {":", ",", ";", ""}

\* the level alternation of SEGMENT_RE, any case, then white space
SegmentLevels == {"major", "minor", "patch", "feat", "fix", "na"}

\* SEGMENT_RE.match(seg)
SegmentMatches(seg) ==
    /\ Len(seg) >= 4
    /\ ~seg[1].q /\ Lower(seg[1].s) \in SegmentLevels
    /\ IsCatalogWord(seg[2])
    /\ IsWord(seg[3], ":")

LowerPiece(piece) == [i \in DOMAIN piece |-> [piece[i] EXCEPT !.s = Lower(@)]]

\* the (level, catalog, files) of a segment that matches
ParsedSegment(seg) ==
    LET pieces == NonEmpty(SplitOn(SubSeq(seg, 4, Len(seg)), ",")) IN
    [level |-> Lower(seg[1].s), catalog |-> seg[2].s,
     files |-> [i \in DOMAIN pieces |-> LowerPiece(pieces[i])]]

\* the segments of the message, split on ";", empty ones dropped
RawSegments(m) == NonEmpty(SplitOn(Concat(m.lines), ";"))

parse_commit_segments(m) ==
    LET ok == SelectSeq(RawSegments(m), SegmentMatches) IN
    [i \in DOMAIN ok |-> ParsedSegment(ok[i])]

\* p.name.lower(), as a file entry of a segment reads
ExpectedFile(path) == <<W(Lower(Last(path)))>>

\* catalog -> every file listed in any of its segments
listed_by_catalog(segments) ==
    [c \in { segments[i].catalog : i \in DOMAIN segments } |->
        UNION { Range(segments[i].files) :
                    i \in { j \in DOMAIN segments : segments[j].catalog = c } }]

\* faulty variant: one listed file of a catalog is enough
validate_message_for_groups_any_file(m, groups) ==
    LET segments == parse_commit_segments(m) IN
    IF DOMAIN groups = {} THEN TRUE
    ELSE IF Len(segments) = 0 THEN FALSE
    ELSE
    LET listed == listed_by_catalog(segments) IN
    \A c \in DOMAIN groups :
        /\ c \in DOMAIN listed
        /\ { ExpectedFile(f) : f \in groups[c] } \cap listed[c] # {}

validate_message_for_groups(m, groups) ==
    LET segments == parse_commit_segments(m) IN
    IF DOMAIN groups = {} THEN TRUE
    ELSE IF Len(segments) = 0 THEN FALSE
    ELSE
    LET listed == listed_by_catalog(segments)
        valid_tokens_all ==
            \A i \in DOMAIN segments : segments[i].level \in VALID_LEVEL_TOKENS IN
    IF ~valid_tokens_all THEN FALSE
    ELSE \A c \in DOMAIN groups :
            /\ c \in DOMAIN listed
            /\ { ExpectedFile(f) : f \in groups[c] } \subseteq listed[c]

\* the exit status and what it rests on; nothing is written
main(idx, m, gitOk, hasArg, msgExists) ==
    LET groups == group_changed_python_by_catalog(get_staged_paths(idx, gitOk)) IN
    IF DOMAIN groups = {} THEN [exit |-> 0, verdict |-> "noop"]
    ELSE IF ~hasArg THEN [exit |-> 0, verdict |-> "noop"]
    ELSE IF ~msgExists THEN [exit |-> 1, verdict |-> "nofile"]
    ELSE IF ~validate_message_for_groups(m, groups)
         THEN [exit |-> 1, verdict |-> "rejected"]
    ELSE [exit |-> 0, verdict |-> "accepted"]

(***************************************************************************)
(* The inputs: staged sets, metadata files, commit messages, typed answers.*)
(***************************************************************************)
AlphaInit == CATALOGS[1].initp
BetaInit  == CATALOGS[2].initp
GammaInit == CATALOGS[3].initp
AlphaA    == <<"catalogs", "catalog_alpha", "a.py">>
AlphaMd   == <<"catalogs", "catalog_alpha", "notes.md">>
BetaB     == <<"catalogs", "catalog_beta", "b.py">>
GammaA    == <<"catalogs", "catalog_gamma", "a.py">>
GammaB    == <<"catalogs", "catalog_gamma", "B.py">>
TopPy     == <<"catalogs", "top.py">>
OtherX    == <<"catalogs", "catalog_alphabet", "x.py">>

StagedChoices ==
    { {}, {AlphaA}, {AlphaInit}, {AlphaA, BetaB}, {GammaA, GammaB},
      {AlphaMd, TopPy}, {OtherX}, {BetaB, AlphaMd} }

Ver(a, b, c) == VersionLine(<<a, b, c>>)
File(ls)   == [exists |-> TRUE, lines |-> ls]
Absent     == [exists |-> FALSE, lines |-> <<>>]

Files(a, b, g) ==
    [p \in InitPaths |-> IF p = AlphaInit THEN a ELSE IF p = BetaInit THEN b ELSE g]

FileChoices ==
    { Files(File(<<Ver(<<1>>, <<2>>, <<3>>)>>), Absent,
            File(<<TextLine, BlankLine>>)),
      Files(File(<<TextLine, Ver(<<0>>, <<9>>, <<9>>), TextLine>>),
            File(<<BlankLine>>),
            File(<<Ver(<<2>>, <<0>>, <<0>>), Ver(<<0, 1>>, <<0>>, <<0>>)>>)) }

Entry(cat, level) == <<Q(cat), W(":"), W(level)>>
Global(word, level) == <<W(word), W(":"), W(level)>>
Segment(level, cat, fs) == <<W(level), W(cat), W(":")>> \o fs
Semi == <<W(";")>>
Comma == <<W(",")>>
Subject == <<W("update"), W("catalogs")>>
Text(ls) == [lines |-> ls, nl |-> TRUE]

ShorthandMessages ==
    { Text(<<Global("Global", "minor")>>),
      Text(<<Subject>>),
      [lines |-> <<>>, nl |-> FALSE],
      Text(<<Entry("catalog_alpha", "major") \o Semi \o Entry("catalog_beta", "fix")>>),
      Text(<<Global("Global", "patch"), Entry("catalog_alpha", "feat")>>),
      Text(<<Global("Global", "patch"), Entry("catalog_beta", "major")>>),
      Text(<<Entry("catalog_alpha", "major"), Entry("catalog_beta", "fix"),
             Entry("catalog_gamma", "Minor")>>),
      Text(<<Entry("catalog_alpha", "minor"), Entry("catalog_beta", "patch"),
             Entry("catalog_alpha", "major")>>),
      [lines |-> <<Subject, Global("GLOBAL", "FIX")>>, nl |-> FALSE],
      Text(<<Global("Global", "bogus")>>),
      Text(<<Entry("catalog_alpha", "feature")>>),
      Text(<<Subject, Global("Global", "major"), PrecommitRun>>) }

SegmentMessages ==
    { Text(<<Segment("patch", "catalog_gamma", <<W("a.py")>>) \o Semi>>),
      Text(<<Segment("NA", "catalog_gamma", <<W("a.py")>> \o Comma \o <<W("b.py")>>)
             \o Semi>>),
      Text(<<Segment("patch", "catalog_gamma", <<W("a.py")>>) \o Semi,
             Segment("fix", "catalog_gamma", <<W("B.py")>>)>>),
      Text(<<Segment("bogus", "catalog_gamma", <<W("a.py")>>) \o Semi
             \o Segment("patch", "catalog_gamma",
                        <<W("a.py")>> \o Comma \o <<W("b.py")>>)>>),
      Text(<<Segment("minor", "catalog_alpha", <<W("a.py")>>) \o Semi,
             Segment("patch", "catalog_beta", <<W("b.py")>>) \o Semi>>),
      Text(<<Segment("feat", "catalog_alphabet", <<W("x.py")>>)>>),
      Text(<<Subject, Segment("patch", "catalog_gamma",
                              <<W("a.py")>> \o Comma \o <<W("b.py")>>)>>) }

Messages == ShorthandMessages \cup SegmentMessages

\* lines typed at the prompts
SameAnswers  == {"y", "N", ""}
LevelAnswers == {"feat", "bogus"}
\* the lines a run with n touched catalogs reads: the answer to "apply same
\* bump to all?", then one level for all, or one level per catalog
TypedLines(n) ==
    { <<same, level>> : same \in {a \in SameAnswers : Lower(a) # "n"},
                        level \in LevelAnswers }
        \cup { <<same>> \o levels : same \in {a \in SameAnswers : Lower(a) = "n"},
                                    levels \in [1..n -> LevelAnswers] }

\* git diff works or fails; a terminal is there or not; the lines typed
PreCommitInputs(n) ==
    { <<FALSE, TRUE, <<>> >>, <<TRUE, FALSE, <<>> >> }
        \cup { <<TRUE, TRUE, a>> : a \in IF n = 0 THEN {<<>>} ELSE TypedLines(n) }

(***************************************************************************)
(* The state machine: hook invocations on one work tree.                   *)
(***************************************************************************)
World == [staged |-> staged, files |-> files, msg |-> msg]

NoRun ==
    [mode |-> "none", exit |-> 0, verdict |-> "none", gitOk |-> TRUE,
     isatty |-> FALSE, hasArg |-> FALSE, msgExists |-> TRUE,
     prompts |-> 0, answers |-> <<>>]

\* no direct call of bump_tuple is pending
IdleProbe == [v |-> <<0, 0, 0>>, level |-> "patch", called |-> TRUE, out |-> <<0, 0, 1>>]

Init ==
    /\ staged \in StagedChoices
    /\ files \in FileChoices
    /\ msg \in Messages
    /\ last = NoRun
    /\ prev = World
    /\ runs = 0
    /\ probe = IdleProbe

\* semantic_bump.py with no argument
PreCommit ==
    /\ runs < MaxRuns
    /\ \E in \in PreCommitInputs(Len(catalogs_with_python_changes(staged))) :
        LET gitOk   == in[1]
            isatty  == in[2]
            answers == in[3] IN
        \E r \in {do_pre_commit(staged, files, msg, gitOk, isatty, answers)} :
        /\ staged' = r.staged
        /\ files' = r.files
        /\ msg' = r.msg
        /\ last' = [NoRun EXCEPT !.mode = "pre_commit", !.exit = r.exit,
                                 !.verdict = r.verdict, !.gitOk = gitOk,
                                 !.isatty = isatty, !.prompts = r.prompts,
                                 !.answers = answers]
    /\ prev' = World
    /\ runs' = runs + 1
    /\ UNCHANGED probe

\* semantic_bump.py with the path of the commit-message file
CommitMsg ==
    /\ runs < MaxRuns
    /\ \E gitOk \in BOOLEAN :
        \E r \in {do_commit_msg(staged, files, msg, gitOk)} :
        /\ staged' = r.staged
        /\ files' = r.files
        /\ msg' = r.msg
        /\ last' = [NoRun EXCEPT !.mode = "commit_msg", !.exit = r.exit,
                                 !.verdict = r.verdict, !.gitOk = gitOk,
                                 !.hasArg = TRUE]
    /\ prev' = World
    /\ runs' = runs + 1
    /\ UNCHANGED probe

ValidateInputs ==
    { <<TRUE, TRUE, TRUE>>, <<FALSE, TRUE, TRUE>>,
      <<TRUE, FALSE, TRUE>>, <<TRUE, TRUE, FALSE>> }

\* semantic_versioning.py
Validate ==
    /\ runs < MaxRuns
    /\ \E in \in ValidateInputs :
        \E r \in {main(staged, msg, in[1], in[2], in[3])} :
        /\ last' = [NoRun EXCEPT !.mode = "validate", !.exit = r.exit,
                                 !.verdict = r.verdict, !.gitOk = in[1],
                                 !.hasArg = in[2], !.msgExists = in[3]]
    /\ prev' = World
    /\ runs' = runs + 1
    /\ UNCHANGED <<staged, files, msg, probe>>

Next == PreCommit \/ CommitMsg \/ Validate

Spec == Init /\ [][Next]_vars

(***************************************************************************)
(* bump_tuple called directly, on every version up to MaxComp.             *)
(***************************************************************************)
ProbeLevels == {"major", "minor", "patch", "feat", "bogus", ""}

InitBump ==
    /\ staged = {}
    /\ files = Files(Absent, Absent, Absent)
    /\ msg = Text(<<Subject>>)
    /\ last = NoRun
    /\ prev = World
    /\ runs = 0
    /\ \E a \in 0..MaxComp, b \in 0..MaxComp, c \in 0..MaxComp, l \in ProbeLevels :
         probe = [v |-> <<a, b, c>>, level |-> l, called |-> FALSE, out |-> <<a, b, c>>]

BumpTuple ==
    /\ ~probe.called
    /\ probe' = [probe EXCEPT !.called = TRUE, !.out = bump_tuple(probe.v, probe.level)]
    /\ UNCHANGED <<staged, files, msg, last, prev, runs>>

NextBump == BumpTuple

SpecBump == InitBump /\ [][NextBump]_vars

(***************************************************************************)
(* Both together: hook invocations on a work tree, or a direct call of     *)
(* bump_tuple.                                                             *)
(***************************************************************************)
InitAll == Init \/ InitBump

NextAll == Next \/ NextBump

SpecAll == InitAll /\ [][NextAll]_vars

(***************************************************************************)
(* Vocabulary of the properties.                                           *)
(***************************************************************************)
\* the file holds a version literal
HoldsVersion(f) == f.exists /\ HasVersionLine(f.lines)

\* the version a file holds: its first version literal, as numbers
VersionIn(f) ==
    LET g == FirstVersionLine(f.lines).v IN
    <<ParseInt(g[1]), ParseInt(g[2]), ParseInt(g[3])>>

\* the version a catalog has before a bump: a file that holds none counts as
\* the default 0.1.0
OldVersion(f) == IF HoldsVersion(f) THEN VersionIn(f) ELSE <<0, 1, 0>>

\* the bump rule, as the specification words it
Bumped(v, level) ==
    CASE level = "major" -> <<v[1] + 1, 0, 0>>
      [] level = "minor" -> <<v[1], v[2] + 1, 0>>
      [] level = "patch" -> <<v[1], v[2], v[3] + 1>>

\* catalog c has a staged Python file in idx
Touches(idx, c) == \E f \in idx : StartsWithDir(f, c.dir) /\ PY_match(f)
TouchedNames(idx) ==
    { ShortName(CATALOGS[i]) : i \in { j \in DOMAIN CATALOGS : Touches(idx, CATALOGS[j]) } }

\* the level the message gives a touched catalog: its own entry, and for a
\* single touched catalog without one, the Global entry
ResolvedLevel(name, m) ==
    LET per == parse_per_catalog_levels(m) IN
    IF name \in DOMAIN per THEN per[name] ELSE parse_global_level(m)

\* the message declares a level for everything touched: one catalog by its
\* own entry or by Global, several catalogs by exactly their own entries
Acceptable(idx, m) ==
    LET per == parse_per_catalog_levels(m) IN
    IF Cardinality(TouchedNames(idx)) = 1
    THEN TouchedNames(idx) \subseteq DOMAIN per \/ parse_global_level(m) # "None"
    ELSE DOMAIN per = TouchedNames(idx)

CommitMsgRan == last.mode = "commit_msg" /\ last.gitOk /\ TouchedNames(prev.staged) # {}

(***************************************************************************)
(* C1.  bump_tuple on (major, minor, patch) >= 0 gives (major+1, 0, 0) for *)
(* level major, (major, minor+1, 0) for minor, (major, minor, patch+1) for *)
(* patch; no component of the result is negative.                          *)
(***************************************************************************)
C1_BumpTuple ==
    (probe.called /\ probe.level \in {"major", "minor", "patch"}) =>
        /\ probe.out = Bumped(probe.v, probe.level)
        /\ \A i \in 1..3 : probe.out[i] >= 0

C1_Witness ==
    /\ probe.called /\ probe.level = "major"
    /\ probe.v[2] > 0 /\ probe.v[3] > 0
    /\ probe.out = <<probe.v[1] + 1, 0, 0>>

(***************************************************************************)
(* C2.  When do_commit_msg is given a message that declares a level for    *)
(* everything touched, it exits 0, every touched catalog's stored version  *)
(* is the old one bumped once by the level resolved for it (feat as minor, *)
(* fix as patch, the catalog's own entry before Global), and the files of  *)
(* the other catalogs are as they were.                                    *)
(***************************************************************************)
C2_AcceptedBumpsEachTouchedOnce ==
    /\ (CommitMsgRan /\ Acceptable(prev.staged, prev.msg)) =>
        /\ last.exit = 0
        /\ \A i \in DOMAIN CATALOGS :
            LET c == CATALOGS[i] IN
            IF Touches(prev.staged, c)
            THEN /\ HoldsVersion(files[c.initp])
                 /\ VersionIn(files[c.initp]) =
                        Bumped(OldVersion(prev.files[c.initp]),
                               ResolvedLevel(ShortName(c), prev.msg))
            ELSE files[c.initp] = prev.files[c.initp]
    /\ (/\ CommitMsgRan
        /\ prev.staged = {AlphaA}
        /\ prev.msg = Text(<<Global("Global", "minor")>>)
        /\ prev.files[AlphaInit] = File(<<Ver(<<1>>, <<2>>, <<3>>)>>)) =>
            /\ last.exit = 0
            /\ files[AlphaInit] = File(<<Ver(<<1>>, <<3>>, <<0>>)>>)
    /\ (/\ CommitMsgRan
        /\ prev.staged = {AlphaA, BetaB}
        /\ prev.msg = Text(<<Entry("catalog_alpha", "major") \o Semi
                             \o Entry("catalog_beta", "fix")>>)) =>
            LET a == OldVersion(prev.files[AlphaInit])
                b == OldVersion(prev.files[BetaInit]) IN
            /\ last.exit = 0
            /\ VersionIn(files[AlphaInit]) = <<a[1] + 1, 0, 0>>
            /\ VersionIn(files[BetaInit]) = <<b[1], b[2], b[3] + 1>>

C2_Witness ==
    /\ CommitMsgRan /\ last.exit = 0
    /\ prev.staged = {AlphaA}
    /\ prev.msg = Text(<<Global("Global", "patch"), Entry("catalog_alpha", "feat")>>)
    /\ prev.files[AlphaInit] = File(<<Ver(<<1>>, <<2>>, <<3>>)>>)
    /\ files[AlphaInit] = File(<<Ver(<<1>>, <<3>>, <<0>>)>>)
    /\ files[BetaInit] = prev.files[BetaInit]

(***************************************************************************)
(* C3.  With two or more catalogs touched, do_commit_msg exits 0 exactly   *)
(* when the catalogs named by the message's quoted entries are the touched *)
(* catalogs: a missing entry is not made up for by Global, and an entry    *)
(* for an untouched catalog is refused.                                    *)
(***************************************************************************)
C3_MultiCatalogNeedsExactEntries ==
    (CommitMsgRan /\ Cardinality(TouchedNames(prev.staged)) >= 2) =>
        ((last.exit = 0) <=>
            (DOMAIN parse_per_catalog_levels(prev.msg) = TouchedNames(prev.staged)))

C3_Witness ==
    /\ CommitMsgRan /\ Cardinality(TouchedNames(prev.staged)) >= 2
    /\ parse_global_level(prev.msg) # "None"
    /\ TouchedNames(prev.staged) \ DOMAIN parse_per_catalog_levels(prev.msg) # {}
    /\ last.exit # 0

(***************************************************************************)
(* Vocabulary of the validator's properties.                               *)
(***************************************************************************)
Groups == group_changed_python_by_catalog(prev.staged)
Segments == parse_commit_segments(prev.msg)

\* the validator read the index and the message and judged the message
ValidatorJudged ==
    /\ last.mode = "validate"
    /\ last.gitOk /\ last.hasArg /\ last.msgExists
    /\ DOMAIN Groups # {}

Expected(c) == { ExpectedFile(f) : f \in Groups[c] }
SegmentsOf(c) == { i \in DOMAIN Segments : Segments[i].catalog = c }

\* a segment of the message that has the shape "<word> <catalog> : <files>"
\* with a word that is no level token
CarriesUnknownLevel(seg) ==
    /\ Len(seg) >= 4
    /\ ~seg[1].q /\ Lower(seg[1].s) \notin VALID_LEVEL_TOKENS
    /\ seg[1].s \notin {":", ",", ";"}
    /\ IsCatalogWord(seg[2])
    /\ IsWord(seg[3], ":")

GammaOnlyA == Text(<<Segment("patch", "catalog_gamma", <<W("a.py")>>) \o Semi>>)

(***************************************************************************)
(* C4, as claimed.  The validator accepts a message only if every catalog  *)
(* of the change group has one segment whose own file list holds the       *)
(* lower-cased base name of every touched file of the catalog.             *)
(***************************************************************************)
C4_Original ==
    (ValidatorJudged /\ last.exit = 0) =>
        \A c \in DOMAIN Groups :
            \E i \in SegmentsOf(c) : Expected(c) \subseteq Range(Segments[i].files)

(***************************************************************************)
(* C4, amended.  The validator accepts a message only if every catalog of  *)
(* the change group has a segment and the file lists of its segments,      *)
(* taken together, hold the lower-cased base name of every touched file of *)
(* the catalog; gamma touched with a.py and b.py and the message           *)
(* "patch gamma : a.py;" is refused.                                       *)
(***************************************************************************)
C4_Amended ==
    /\ (ValidatorJudged /\ last.exit = 0) =>
        \A c \in DOMAIN Groups :
            /\ SegmentsOf(c) # {}
            /\ Expected(c) \subseteq
                   UNION { Range(Segments[i].files) : i \in SegmentsOf(c) }
    /\ (ValidatorJudged /\ prev.staged = {GammaA, GammaB} /\ prev.msg = GammaOnlyA) =>
        last.exit # 0

C4_Witness ==
    /\ ValidatorJudged /\ last.exit = 0
    /\ \E c \in DOMAIN Groups :
        /\ Cardinality(SegmentsOf(c)) >= 2
        /\ \A i \in SegmentsOf(c) : ~(Expected(c) \subseteq Range(Segments[i].files))

(***************************************************************************)
(* C5.  A message with a segment whose level token is none of major,       *)
(* minor, patch, feat, fix, na is refused by the validator (non-zero exit),*)
(* whatever its other segments cover.                                      *)
(***************************************************************************)
C5_UnknownLevelRejectsMessage ==
    (/\ ValidatorJudged
     /\ \E i \in DOMAIN RawSegments(prev.msg) :
            CarriesUnknownLevel(RawSegments(prev.msg)[i])) =>
        last.exit # 0

(***************************************************************************)
(* C6.  No trailer line (Precommit-Run, Semver-Bump, Semver-Level-<name>)  *)
(* occurs twice in the commit message, however often do_commit_msg has run *)
(* on it.                                                                  *)
(***************************************************************************)
TrailerKeys ==
    {"Precommit-Run", "Semver-Bump"}
        \cup { "Semver-Level-" \o n : n \in Range(SortedNames) }

IsTrailer(line) ==
    Len(line) >= 2 /\ ~line[1].q /\ line[1].s \in TrailerKeys /\ IsWord(line[2], ":")

C6_NoTrailerTwice ==
    \A i \in DOMAIN msg.lines, j \in DOMAIN msg.lines :
        (i < j /\ IsTrailer(msg.lines[i]) /\ IsTrailer(msg.lines[j])) =>
            msg.lines[i] # msg.lines[j]

(***************************************************************************)
(* C7.  do_pre_commit at a terminal, with nothing staged but catalogs'     *)
(* __init__.py files, asks nothing, bumps nothing, writes and stages       *)
(* nothing, and exits 0.                                                   *)
(***************************************************************************)
C7_OnlyMetadataStagedIsNoOp ==
    (/\ last.mode = "pre_commit" /\ last.gitOk /\ last.isatty
     /\ prev.staged # {} /\ prev.staged \subseteq InitPaths) =>
        /\ last.exit = 0
        /\ last.prompts = 0
        /\ files = prev.files
        /\ staged = prev.staged

(***************************************************************************)
(* C8.  In every mode, an invocation whose query for the staged paths      *)
(* fails ends with a non-zero exit status.                                 *)
(***************************************************************************)
C8_FailedQueryIsFatal ==
    (last.mode # "none" /\ ~last.gitOk) => last.exit # 0

(***************************************************************************)
(* C9, as claimed.  bump_tuple applies no bump for a level that is none of *)
(* major, minor, patch, and a pre-commit run in which an unrecognized      *)
(* level token was typed aborts: non-zero exit, no file changed.           *)
(***************************************************************************)
UnknownLevels == ProbeLevels \ {"major", "minor", "patch"}

\* the k-th touched catalog's level was asked for, and the line typed is no choice
TypedUnknown(k) ==
    LET same == prompt(TRUE, last.answers[1], {"y", "n"}, "y")
        at   == IF same = "y" THEN 2 ELSE 1 + k IN
    Lower(last.answers[at]) \notin BumpChoices

PreCommitAsked == last.mode = "pre_commit" /\ last.prompts >= 2

C10_RejectionLeavesEverythingAlone ==
    (CommitMsgRan /\ last.exit # 0) =>
        /\ files = prev.files
        /\ staged = prev.staged
        /\ msg = prev.msg

C10_Witness ==
    /\ CommitMsgRan /\ last.exit # 0
    /\ ~Acceptable(prev.staged, prev.msg)
    /\ \E i \in DOMAIN CATALOGS :
        /\ Touches(prev.staged, CATALOGS[i])
        /\ ~HoldsVersion(prev.files[CATALOGS[i].initp])
        /\ files[CATALOGS[i].initp] = prev.files[CATALOGS[i].initp]

====
